---- MODULE Spec2Model ----
(***************************************************************************)
(* Model of the schema upgrade orchestrator of Moonfire NVR                *)
(* (src/db/upgrade/mod.rs): `run`, `upgrade` and `set_journal_mode`,       *)
(* executed statement by statement against one SQLite connection.          *)
(*                                                                         *)
(* The connection is modelled by what it was opened on and how it was      *)
(* handed over (`conn`), the committed `version` table, the committed      *)
(* structural `schema`, the transaction `tx` the call has open (working    *)
(* copies of both), the durability `pragmas`, the `journal_mode` and the   *)
(* `page_size`, and whether the file has been left `malformed`.  `trace`   *)
(* records the statements the current call has issued on the connection    *)
(* and the info! lines it has logged, in order.                            *)
(*                                                                         *)
(* Every statement the code executes can return an error (`?`, unwrap()):  *)
(* an error of the engine is possible at each of them, and some are        *)
(* certain on the connection at hand (a write or a change into WAL on a    *)
(* read-only connection, `pragma synchronous` and BEGIN inside a           *)
(* transaction the caller left open, max(id) of an empty table).           *)
(***************************************************************************)
EXTENDS Integers, Sequences, FiniteSets, TLC

\* db::EXPECTED_VERSION; line 74 asserts it equals the number of upgraders (5).
EXPECTED_VERSION == 5

\* Largest reading of the wall clock (seconds) the model explores.
MaxTime == 1

\* Largest reading of the wall clock explored where progress is checked
\* (FairSpec): no branch of the code depends on what the clock reads.
FairMaxTime == 0

\* The journal modes of SQLite: what `pragma journal_mode` can report.
JournalModes == {"delete", "truncate", "persist", "memory", "wal", "off"}

\* Values of flag_preset_journal with a ';' in them (line 57).
WithSemicolon == {"delete;"}

\* Values of flag_preset_journal: any text.  The journal modes, a word that
\* is no journal mode, and a text with a ';'.
PresetModes == JournalModes \cup {"bogus"} \cup WithSemicolon

UPGRADE_NOTES == "upgraded using moonfire-db"

\* Line 120: pragma page_size = 16384.
VACUUM_PAGE_SIZE == 16384

\* Page size of a database before the upgrade (SQLite's default).
DEFAULT_PAGE_SIZE == 4096

VARIABLES
    conn,           \* what the connection is open on and how it was handed over
    version,        \* committed rows of table `version`, in insertion order
    schema,         \* committed structural state of the database
    tx,             \* the transaction the call has open (working copies), or closed
    pragmas,        \* foreign_keys, fullfsync, synchronous of the connection
    journal_mode,   \* journal mode the connection is actually in
    pc,             \* position of the current call in the code
    entry,          \* "run" or "upgrade": the function the caller invoked
    args,           \* Args of the current call, as far as the call has read it
    target_ver,     \* upgrade's target_ver
    old_ver,        \* upgrade's old_ver (meaningful after the query)
    ver,            \* loop variable of upgrade
    result,         \* outcome of the current / last call
    trace,          \* statements issued on the connection by this call
    resume_from,    \* {v} if the last finished call failed in step v, else {}
    at_call,        \* the version log and schema when this call was entered
    page_size,      \* page size of the database file, bytes
    malformed       \* the database file is malformed: no table of it can be read

vars == <<conn, version, schema, tx, pragmas, journal_mode, pc, entry, args,
          target_ver, old_ver, ver, result, trace, resume_from, at_call,
          page_size, malformed>>

----------------------------------------------------------------------------
(* Data *)

Row(id, t, notes) == [id |-> id, unix_time |-> t, notes |-> notes]

\* A database whose log is 0..n: the rows a fresh v0 database plus n upgrades hold.
RECURSIVE InitialLog(_)
InitialLog(n) ==
    IF n < 0 THEN <<>>
    ELSE Append(InitialLog(n - 1), Row(n, 0, IF n = 0 THEN "" ELSE UPGRADE_NOTES))

Ids(log) == {log[i].id : i \in 1..Len(log)}

\* The largest id of a non-empty log.
MaxId(log) == CHOOSE m \in Ids(log) : \A x \in Ids(log) : x <= m

Schema(v, partial) == [ver |-> v, partial |-> partial]

NoTx == [open |-> FALSE, version |-> <<>>, schema |-> Schema(0, FALSE)]

Stmt(op, v, mode) == [op |-> op, v |-> v, mode |-> mode]

Err(kind) == [status |-> "Err", kind |-> kind]
Panic(kind) == [status |-> "panic", kind |-> kind]
Ok == [status |-> "Ok", kind |-> ""]
Running == [status |-> "running", kind |-> ""]
NotCalled == [status |-> "none", kind |-> ""]

\* A connection: open on a database file, on a private temporary database
\* ("") or on an in-memory database; on a VFS with the shared memory WAL
\* needs (`wal`) or without it (as SQLite's unix-dotfile); read-only or
\* not; handed over inside a transaction the caller has open or not.  The
\* code changes none of these.
Conn(kind, wal, read_only, caller_tx) ==
    [kind |-> kind, wal |-> wal, read_only |-> read_only, caller_tx |-> caller_tx]

Conns ==
    {Conn(k, w, ro, t) : k \in {"file", "temp", "memory"}, w \in BOOLEAN,
                         ro \in BOOLEAN, t \in BOOLEAN}

\* Only a database file can be in WAL, and only a database file is opened
\* read-only.
UsableConns ==
    {c \in Conns : (c.wal => c.kind = "file") /\ (c.read_only => c.kind = "file")}

\* The journal modes the database of a connection can be in: an in-memory
\* database journals in memory or not at all; a temporary database, and a
\* database file on a VFS without shared memory, is never in WAL.
ModesOf(c) ==
    IF c.kind = "memory" THEN {"memory", "off"}
    ELSE IF ~c.wal THEN JournalModes \ {"wal"}
    ELSE JournalModes

\* Whether a statement returns an error: certainly when `forced`, else it may.
Fails(forced) == IF forced THEN {TRUE} ELSE BOOLEAN

----------------------------------------------------------------------------
(* Pure parts of the code *)

\* Variant: the query reads the first row of the log instead of the largest id.
QueryMaxId_first(log) == log[1].id

\* Line 76: select max(id) from version; NULL (an error in row.get) on an
\* empty table.
HasMaxId(log) == Len(log) > 0
QueryMaxId(log) == CHOOSE m \in Ids(log) : \A x \in Ids(log) : x <= m

\* Lines 65-71: the step handlers, indexed by the version they start from
\* (index 0 of the array is element 1 of the sequence).
upgraders == <<"v0_to_v1", "v1_to_v2", "v2_to_v3", "v3_to_v4", "v4_to_v5">>

\* Line 89: upgraders[ver as usize] is inside the array.
InBounds(v) == v >= 0 /\ v < Len(upgraders)

\* Lines 160-164: the (ver, fresh_sql) pairs of tests::upgrade_and_compare,
\* in order: the target of an upgrade and the schema file the upgraded
\* database is compared with afterwards, if any.
Targets ==
    <<[ver |-> 1, fresh_sql |-> "v1.sql"],
      [ver |-> 2, fresh_sql |-> "None"],
      [ver |-> 3, fresh_sql |-> "v3.sql"],
      [ver |-> 4, fresh_sql |-> "None"],
      [ver |-> 4, fresh_sql |-> "../schema.sql"]>>

\* Lines 161 and 163: "transitional; don't compare schemas": the targets
\* after which the test compares nothing.
Transitional ==
    {Targets[i].ver : i \in {j \in DOMAIN Targets : Targets[j].fresh_sql = "None"}}

\* Lines 158-164: the versions the test has a fresh schema at: 0, which its
\* database is created at from v0.sql, and the targets it compares a schema
\* file at.  ../schema.sql is compared at target 4 (line 164, after the
\* upgrade of line 163 to the same target); the test has no pair for
\* EXPECTED_VERSION.
HasFresh(v) ==
    \/ v = 0
    \/ \E i \in DOMAIN Targets : Targets[i].ver = v /\ Targets[i].fresh_sql # "None"

\* Lines 142-149: the structure of a database created fresh from the schema
\* file the test has at version v.  compare panics unless get_diffs finds the
\* upgraded database and the fresh one structurally the same.
FreshSchema(v) == Schema(v, FALSE)

\* Variant: a negative version is not refused.
Validate_accepts_negative(old) ==
    IF old > EXPECTED_VERSION THEN "VersionOutOfRange" ELSE "ok"

\* Lines 78-83: the two bails of upgrade.
Validate(old) ==
    IF old > EXPECTED_VERSION THEN "VersionOutOfRange"
    ELSE IF old < 0 THEN "CorruptVersion"
    ELSE "ok"

\* The versions the text of an error of upgrade names.  The bail! messages
\* (lines 79-82) are formatted with old_ver (and EXPECTED_VERSION); the
\* errors passed on by `?` (lines 77, 88, 89, 93, 94) are the callee's own,
\* and upgrade adds nothing to them.
ErrorNamesVersions(kind, old) ==
    IF kind = "VersionOutOfRange" THEN {old, EXPECTED_VERSION}
    ELSE IF kind = "CorruptVersion" THEN {old}
    ELSE {}

\* Variant: the loop ends one version early.
LoopContinues_stops_early(v, target) == v + 1 < target

\* Variant: the loop runs until ver equals the target.
LoopContinues_until_equal(v, target) == v # target

\* Variant: the range includes its upper end.
LoopContinues_inclusive(v, target) == v <= target

\* Line 86: `for ver in old_ver .. target_ver` continues while ver < target_ver.
LoopContinues(v, target) == v < target

\* Variant: the iterator skips a version.
NextVer_skips(v) == v + 2

\* Line 86: the range iterator yields the next version.
NextVer(v) == v + 1

\* Variant: the row is stamped one version too far.
NewVersionId_far(v) == v + 2

\* Line 93: the id bound to the first parameter of the insert.
NewVersionId(v) == v + 1

\* Variant: synchronous is set to 1 (normal) instead of 2 (full).
ForcedPragmas_normal == [foreign_keys |-> TRUE, fullfsync |-> TRUE, synchronous |-> 1]

\* Lines 106-110: the values run forces.
ForcedPragmas == [foreign_keys |-> TRUE, fullfsync |-> TRUE, synchronous |-> 2]

\* Lines 106-110: the three statements, in order, and what is recorded when
\* one of them returns an error.
PragmaStmts ==
    <<Stmt("pragma foreign_keys", 0, ""), Stmt("pragma fullfsync", 0, ""),
      Stmt("pragma synchronous", 0, "")>>
PragmaFailures ==
    <<Stmt("pragma foreign_keys failed", 0, ""), Stmt("pragma fullfsync failed", 0, ""),
      Stmt("pragma synchronous failed", 0, "")>>

\* Lines 106-110: the pragmas of the connection after the first n of the
\* three statements succeeded.  Inside a transaction `pragma foreign_keys`
\* succeeds without effect.
PragmasAfter(p, in_tx, n) ==
    [foreign_keys |-> IF n >= 1 /\ ~in_tx THEN ForcedPragmas.foreign_keys
                      ELSE p.foreign_keys,
     fullfsync    |-> IF n >= 2 THEN ForcedPragmas.fullfsync ELSE p.fullfsync,
     synchronous  |-> IF n >= 3 THEN ForcedPragmas.synchronous ELSE p.synchronous]

\* Step handler upgraders[v] on success: applied to the complete schema of
\* version v it leaves the complete schema of version v + 1, which the test
\* compares with a fresh schema for v + 1 = 1, 3 and 4 (lines 160-172);
\* applied to anything else (what a transaction that
\* was not undone left behind) it leaves a schema that is not the one of
\* version v + 1.
StepHandlerOk(v, s) ==
    IF s = Schema(v, FALSE) THEN Schema(v + 1, FALSE) ELSE Schema(v + 1, TRUE)

\* Step handler upgraders[v] on failure: whatever it changed before failing
\* is in the transaction only.
StepHandlerFailed(s, partial) == Schema(s.ver, s.partial \/ partial)

\* Variant: the working copy survives the drop (no rollback).
RolledBack_keeps(committed, working) == working

\* Dropping a rusqlite::Transaction that was not committed rolls it back
\* (lines 89, 93, 94: `?` returns while `tx` is alive): the database holds
\* what was committed before.
RolledBack(committed, working) == committed

\* What the drop of a transaction leaves of its changes.  With a rollback
\* journal they are undone.  With journal_mode off SQLite keeps no rollback
\* journal and the effect of ROLLBACK is undefined: the changes are undone,
\* or they stay ("kept"); and on a database file, where changed pages reach
\* the file before the commit, part of them stays: the file is damaged (the
\* log can be read, the schema is neither the old nor the new one) or
\* malformed (no table can be read).  Nothing was changed through a
\* read-only connection.
KeptOnDrop(c, mode) ==
    IF mode # "off" \/ c.read_only THEN {"undone"}
    ELSE IF c.kind = "file" THEN {"undone", "kept", "damaged", "malformed"}
    ELSE {"undone", "kept"}

\* A schema of which part of the pages was overwritten.
Damaged(s) == Schema(s.ver, TRUE)

\* What the database holds after the transaction was dropped.
Dropped(committed, working, left) ==
    IF left = "kept" THEN working ELSE RolledBack(committed, working)

\* The logs and the schema a database can hold after the transaction was
\* dropped: in a damaged file the row of the step is there or not.
DroppedLogs(committed, working, left) ==
    IF left = "damaged" THEN {committed, working}
    ELSE {Dropped(committed, working, left)}
DroppedSchema(committed, working, left) ==
    IF left = "damaged" THEN Damaged(committed)
    ELSE Dropped(committed, working, left)

\* Variant: the commit does not make the working copy durable.
Committed_lost(committed, working) == committed

\* Line 94: tx.commit() makes the working copy the committed one.
Committed(committed, working) == working

\* Line 57: requested.contains(';').
Contains(requested, c) == c = ";" /\ requested \in WithSemicolon

\* Lines 58-59: the mode SQLite puts the database in for
\* `pragma journal_mode = X`: none for a word that is no journal mode; an
\* in-memory database takes only memory and off; WAL is taken by a
\* database file on a VFS with shared memory only; every other mode is taken
\* by every database that is not in memory.
GrantedMode(c, current, requested) ==
    IF requested \notin JournalModes THEN current
    ELSE IF c.kind = "memory"
        THEN (IF requested \in {"memory", "off"} THEN requested ELSE current)
    ELSE IF requested = "wal" /\ ~c.wal THEN current
    ELSE requested

\* Lines 58-59: what `pragma journal_mode = X` returns: the mode the database
\* is in afterwards, or "error".  A change into or out of WAL is an error on
\* a read-only connection and inside a transaction; inside a transaction
\* that has written, no mode is changed.
GrantedModes(c, current, requested) ==
    LET granted == GrantedMode(c, current, requested)
        wal == granted # current /\ "wal" \in {granted, current}
    IN  IF wal /\ c.read_only THEN {"error"}
        ELSE IF wal /\ c.caller_tx THEN {"error", current}
        ELSE IF c.caller_tx THEN {"error", granted, current}
        ELSE {"error", granted}

\* Lines 119-122: the page size after `pragma page_size = N; vacuum;`
\* succeeded.  SQLite's VACUUM rebuilds a database file with the pending page
\* size unless the database is in WAL mode; the page size of an in-memory or
\* temporary database does not change.
VacuumPageSize(c, current, mode, requested) ==
    IF c.kind # "file" \/ mode = "wal" THEN current ELSE requested

\* What a call finds when it is entered.
\* `repeats`: the call has the target of the call before it, which returned Ok.
Snapshot(log, s, repeats) ==
    [version |-> log, schema |-> s, repeats |-> repeats]

\* Args is immutable and the code reads each field once: flag_preset_journal
\* at line 85, flag_no_vacuum at line 117.  A field is drawn from the values
\* the caller can have given it where the code reads it; what ran before
\* did not depend on it.
NoArgs == <<>>
Read(a, field, value) == a @@ (field :> value)
HasRead(a, field) == field \in DOMAIN a

----------------------------------------------------------------------------
Init ==
    /\ \E n \in 0..(EXPECTED_VERSION + 1) :
          /\ version \in {InitialLog(n)} \cup
                 (IF n = 0 THEN {<<>>, <<Row(-1, 0, "")>>} ELSE {})
          /\ schema = Schema(n, FALSE)
    /\ conn \in UsableConns
    /\ tx = NoTx
    /\ pragmas \in {[foreign_keys |-> FALSE, fullfsync |-> FALSE, synchronous |-> 1],
                    ForcedPragmas}
    /\ journal_mode \in ModesOf(conn)
    /\ pc = "idle"
    /\ entry = "none"
    /\ args = NoArgs
    /\ target_ver = 0
    /\ old_ver = 0
    /\ ver = 0
    /\ result = NotCalled
    /\ trace = <<>>
    /\ resume_from = {}
    /\ at_call = Snapshot(version, schema, FALSE)
    /\ page_size = DEFAULT_PAGE_SIZE
    /\ malformed = FALSE

----------------------------------------------------------------------------
(* The caller *)

\* The call returns (or unwinds): the position goes back to the caller.
Finish(res, failed_step) ==
    /\ pc' = "returned"
    /\ result' = res
    /\ resume_from' = failed_step

\* Lines 89, 93, 94: `?` returns (or a panic unwinds) while `tx` is alive:
\* the transaction, with the working copies `working`, is dropped without
\* a commit.  Where it wrote nothing (`wrote` is false) there is nothing to
\* undo; what it wrote is undone or not, also where it was written over a
\* schema that an earlier drop had left partial.
DropTx(working, wrote) ==
    \E left \in (IF wrote THEN KeptOnDrop(conn, journal_mode) ELSE {"undone"}) :
        /\ version' \in DroppedLogs(version, working.version, left)
        /\ schema' = DroppedSchema(schema, working.schema, left)
        /\ malformed' = (left = "malformed")
        /\ tx' = NoTx

Call(fn, target, first_pc) ==
    /\ pc = "idle"
    /\ entry' = fn
    /\ args' = NoArgs
    /\ target_ver' = target
    /\ old_ver' = 0
    /\ ver' = 0
    /\ result' = Running
    /\ trace' = <<>>
    /\ pc' = first_pc
    /\ at_call' = Snapshot(version, schema, result = Ok /\ target = target_ver)
    /\ UNCHANGED <<conn, version, schema, tx, pragmas, journal_mode,
                   resume_from, page_size, malformed>>

\* The caller has the result: the frame of the finished call is gone.  What
\* stays is what the caller knows of it: whether it returned Ok and for which
\* target, and the step it failed in.
Returns ==
    /\ pc = "returned"
    /\ pc' = "idle"
    /\ entry' = "none"
    /\ args' = NoArgs
    /\ target_ver' = IF result = Ok THEN target_ver ELSE 0
    /\ old_ver' = 0
    /\ ver' = 0
    /\ result' = IF result = Ok THEN Ok ELSE NotCalled
    /\ trace' = <<>>
    /\ at_call' = Snapshot(version, schema, FALSE)
    /\ UNCHANGED <<conn, version, schema, tx, pragmas, journal_mode,
                   resume_from, page_size, malformed>>

ArgsSet == [flag_preset_journal : PresetModes, flag_no_vacuum : BOOLEAN]

\* Lines 165-169: the Args of the only direct call of upgrade (a private
\* function); every other call of it is line 112, with the Args of run.
TestArgsSet ==
    {a \in ArgsSet : a.flag_preset_journal = "delete" /\ ~a.flag_no_vacuum}

\* The Args a call of the function can have been given, and the values of
\* one field of them.
ArgsOf(fn) == IF fn = "run" THEN ArgsSet ELSE TestArgsSet
ArgValues(fn, field) == {a[field] : a \in ArgsOf(fn)}

\* Line 101: the top-level entry point; line 112 passes EXPECTED_VERSION.
run_call == Call("run", EXPECTED_VERSION, "run_pragmas")

\* Line 64 called directly with a target, as tests::upgrade_and_compare does
\* (lines 160-169: targets 1, 2, 3, 4, 4).
upgrade_call ==
    \E t \in 0..EXPECTED_VERSION : Call("upgrade", t, "query_version")

----------------------------------------------------------------------------
(* run, lines 101-127, and upgrade, lines 64-99 *)

\* Variant: synchronous is left as the caller had it.
run_pragmas_without_synchronous ==
    /\ pc = "run_pragmas"
    /\ \E n \in 0..2 :
          /\ pragmas' = PragmasAfter(pragmas, conn.caller_tx, n)
          /\ IF n = 2
                THEN /\ trace' = trace \o SubSeq(PragmaStmts, 1, n)
                     /\ pc' = "query_version"
                     /\ UNCHANGED <<result, resume_from>>
                ELSE /\ trace' = trace \o SubSeq(PragmaStmts, 1, n)
                                       \o <<PragmaFailures[n + 1]>>
                     /\ Finish(Err(PragmaStmts[n + 1].op), {})
    /\ UNCHANGED <<conn, at_call, page_size, malformed>>
    /\ UNCHANGED <<version, schema, tx, journal_mode, entry, args,
                   target_ver, old_ver, ver>>

\* Lines 106-110: foreign_keys, fullfsync and synchronous are forced, each
\* statement with `?`: n of them succeed, the next one returns an error (n <
\* 3) or all did (n = 3).  `pragma synchronous` is an error inside a
\* transaction.
run_pragmas ==
    /\ pc = "run_pragmas"
    /\ \E n \in 0..3 :
          /\ n = 3 => ~conn.caller_tx
          /\ pragmas' = PragmasAfter(pragmas, conn.caller_tx, n)
          /\ IF n = 3
                THEN /\ trace' = trace \o SubSeq(PragmaStmts, 1, n)
                     /\ pc' = "query_version"
                     /\ UNCHANGED <<result, resume_from>>
                ELSE /\ trace' = trace \o SubSeq(PragmaStmts, 1, n)
                                       \o <<PragmaFailures[n + 1]>>
                     /\ Finish(Err(PragmaStmts[n + 1].op), {})
    /\ UNCHANGED <<conn, at_call, page_size, malformed>>
    /\ UNCHANGED <<version, schema, tx, journal_mode, entry, args,
                   target_ver, old_ver, ver>>

\* Lines 75-77: old_ver = select max(id) from version, with `?`; NULL (an
\* empty table) is an error, and so is a table that cannot be read.
upgrade_query_version ==
    /\ pc = "query_version"
    /\ \E failed \in Fails(malformed \/ ~HasMaxId(version)) :
          IF failed
            THEN /\ Finish(Err("query"), {})
                 /\ UNCHANGED old_ver
            ELSE /\ old_ver' = QueryMaxId(version)
                 /\ pc' = "validate"
                 /\ UNCHANGED <<result, resume_from>>
    /\ UNCHANGED <<conn, at_call, page_size, malformed>>
    /\ UNCHANGED <<version, schema, tx, pragmas, journal_mode, entry, args,
                   target_ver, ver, trace>>

\* Variant: the preset journal mode is requested before the version is checked.
upgrade_validate_after_journal ==
    /\ pc = "validate"
    /\ IF Validate(old_ver) = "ok"
          THEN /\ pc' = "preset_journal"
               /\ UNCHANGED <<result, resume_from, journal_mode, trace>>
          ELSE \E preset \in ArgValues(entry, "flag_preset_journal") :
               /\ Finish(Err(Validate(old_ver)), {})
               /\ journal_mode' = GrantedMode(conn, journal_mode, preset)
               /\ trace' = Append(trace, Stmt("pragma journal_mode", 0, preset))
    /\ UNCHANGED <<conn, at_call, page_size, malformed>>
    /\ UNCHANGED <<version, schema, tx, pragmas, entry, args,
                   target_ver, old_ver, ver>>

\* Lines 78-84: bail on a version later than expected or negative.
upgrade_validate ==
    /\ pc = "validate"
    /\ IF Validate(old_ver) = "ok"
          THEN /\ pc' = "preset_journal"
               /\ UNCHANGED <<result, resume_from>>
          ELSE Finish(Err(Validate(old_ver)), {})
    /\ UNCHANGED <<conn, at_call, page_size, malformed>>
    /\ UNCHANGED <<version, schema, tx, pragmas, journal_mode, entry, args,
                   target_ver, old_ver, ver, trace>>

\* Variant: the log line reports the requested mode as the mode in effect.
set_journal_mode_logs_requested(requested, r) ==
    IF Contains(requested, ";")
      THEN /\ r = "panic"
           /\ UNCHANGED <<journal_mode, trace>>
      ELSE \E actual \in GrantedModes(conn, journal_mode, requested) :
             IF actual = "error"
               THEN /\ r = "Err"
                    /\ trace' = Append(trace, Stmt("pragma journal_mode failed",
                                                    0, requested))
                    /\ UNCHANGED journal_mode
               ELSE /\ r = "Ok"
                    /\ journal_mode' = actual
                    /\ trace' = trace \o <<Stmt("pragma journal_mode", 0, requested),
                                            Stmt("info journal_mode", 0, requested)>>

\* Lines 56-62: the assert (a panic when the text has a ';'), the pragma with
\* `?` (r = "Err"), then the info! line with the mode SQLite reported back
\* and Ok(()), whether or not that is the requested mode.
set_journal_mode(requested, r) ==
    IF Contains(requested, ";")
      THEN /\ r = "panic"
           /\ UNCHANGED <<journal_mode, trace>>
      ELSE \E actual \in GrantedModes(conn, journal_mode, requested) :
             IF actual = "error"
               THEN /\ r = "Err"
                    /\ trace' = Append(trace, Stmt("pragma journal_mode failed",
                                                    0, requested))
                    /\ UNCHANGED journal_mode
               ELSE /\ r = "Ok"
                    /\ journal_mode' = actual
                    /\ trace' = trace \o <<Stmt("pragma journal_mode", 0, requested),
                                            Stmt("info journal_mode", 0, actual)>>

\* Variant: WAL is requested instead of the preset mode.
upgrade_preset_journal_wal ==
    /\ pc = "preset_journal"
    /\ \E preset \in ArgValues(entry, "flag_preset_journal"),
          r \in {"Ok", "Err", "panic"} :
          /\ args' = Read(args, "flag_preset_journal", preset)
          /\ set_journal_mode("wal", r)
          /\ IF r = "Ok"
                THEN /\ pc' = "loop"
                     /\ ver' = old_ver
                     /\ UNCHANGED <<result, resume_from>>
                ELSE /\ Finish(Panic(IF r = "panic" THEN "assert"
                                     ELSE "preset_journal"), {})
                     /\ UNCHANGED ver
    /\ UNCHANGED <<conn, at_call, page_size, malformed>>
    /\ UNCHANGED <<version, schema, tx, pragmas, entry, target_ver, old_ver>>

\* Lines 85-86: set_journal_mode(&conn, args.flag_preset_journal).unwrap(): a
\* panic when it panics or returns Err; else the loop starts at old_ver.
upgrade_preset_journal ==
    /\ pc = "preset_journal"
    /\ \E preset \in ArgValues(entry, "flag_preset_journal"),
          r \in {"Ok", "Err", "panic"} :
          /\ args' = Read(args, "flag_preset_journal", preset)
          /\ set_journal_mode(args'.flag_preset_journal, r)
          /\ IF r = "Ok"
                THEN /\ pc' = "loop"
                     /\ ver' = old_ver
                     /\ UNCHANGED <<result, resume_from>>
                ELSE /\ Finish(Panic(IF r = "panic" THEN "assert"
                                     ELSE "preset_journal"), {})
                     /\ UNCHANGED ver
    /\ UNCHANGED <<conn, at_call, page_size, malformed>>
    /\ UNCHANGED <<version, schema, tx, pragmas, entry, target_ver, old_ver>>

\* Variant: the progress line of the iteration is not logged.
upgrade_begin_silent ==
    /\ pc = "loop"
    /\ LoopContinues(ver, target_ver)
    /\ \E failed \in Fails(conn.caller_tx) :
          IF failed
            THEN /\ trace' = Append(trace, Stmt("begin failed", ver, ""))
                 /\ Finish(Err("begin"), {})
                 /\ UNCHANGED tx
            ELSE /\ tx' = [open |-> TRUE, version |-> version, schema |-> schema]
                 /\ trace' = Append(trace, Stmt("begin", ver, ""))
                 /\ pc' = "step"
                 /\ UNCHANGED <<result, resume_from>>
    /\ UNCHANGED <<conn, at_call, page_size, malformed>>
    /\ UNCHANGED <<version, schema, pragmas, journal_mode, entry, args,
                   target_ver, old_ver, ver>>

\* Lines 86-88: next iteration; info!("...from version {} to version {}"),
\* then conn.transaction()?: BEGIN, an error inside a transaction.
upgrade_begin ==
    /\ pc = "loop"
    /\ LoopContinues(ver, target_ver)
    /\ \E failed \in Fails(conn.caller_tx) :
          IF failed
            THEN /\ trace' = trace \o <<Stmt("info from", ver, ""),
                                        Stmt("begin failed", ver, "")>>
                 /\ Finish(Err("begin"), {})
                 /\ UNCHANGED tx
            ELSE /\ tx' = [open |-> TRUE, version |-> version, schema |-> schema]
                 /\ trace' = trace \o <<Stmt("info from", ver, ""),
                                        Stmt("begin", ver, "")>>
                 /\ pc' = "step"
                 /\ UNCHANGED <<result, resume_from>>
    /\ UNCHANGED <<conn, at_call, page_size, malformed>>
    /\ UNCHANGED <<version, schema, pragmas, journal_mode, entry, args,
                   target_ver, old_ver, ver>>

\* Line 89: upgraders[ver](&args, &tx)?  The handler returns Ok, its changes
\* made in the transaction (none through a read-only connection, where a
\* write is an error); or it returns Err or panics, having changed part of
\* the schema or nothing: `?` returns, or the panic unwinds, through the
\* drop of `tx`.
upgrade_step ==
    /\ pc = "step"
    /\ \/ /\ tx' = [tx EXCEPT !.schema =
                        IF conn.read_only THEN @ ELSE StepHandlerOk(ver, @)]
          /\ trace' = Append(trace, Stmt("step", ver, ""))
          /\ pc' = "insert"
          /\ UNCHANGED <<version, schema, result, resume_from, malformed>>
       \/ \E partial \in {p \in BOOLEAN : p => ~conn.read_only},
             res \in {Err("step"), Panic("handler")} :
             /\ DropTx([tx EXCEPT !.schema = StepHandlerFailed(tx.schema, partial)],
                       partial)
             /\ trace' = trace \o <<Stmt("step", ver, ""), Stmt("rollback", ver, "")>>
             /\ Finish(res, {ver})
    /\ UNCHANGED <<conn, at_call, page_size>>
    /\ UNCHANGED <<pragmas, journal_mode, entry, args, target_ver, old_ver, ver>>

\* Variant: an error of the insert is ignored and the commit follows.
upgrade_insert_ignores_error(readings) ==
    /\ pc = "insert"
    /\ \E failed \in Fails(conn.read_only) :
          \E t \in readings :
          /\ tx' = IF failed THEN tx
                   ELSE [tx EXCEPT !.version =
                            Append(@, Row(NewVersionId(ver), t, UPGRADE_NOTES))]
          /\ trace' = trace \o <<Stmt("clock", t, ""),
                                  Stmt("insert", NewVersionId(ver), "")>>
    /\ pc' = "commit"
    /\ UNCHANGED <<version, schema, result, resume_from>>
    /\ UNCHANGED <<conn, at_call, page_size, malformed>>
    /\ UNCHANGED <<pragmas, journal_mode, entry, args, target_ver, old_ver, ver>>

\* Lines 90-93: insert into version (id, unix_time, notes) values (ver + 1,
\* cast(strftime('%s', 'now') as int), notes), with `?`.  strftime reads the
\* wall clock, which is set forwards and backwards independently of the
\* program: any of the `readings`.  A write is an error on a read-only
\* connection.
upgrade_insert(readings) ==
    /\ pc = "insert"
    /\ \E failed \in Fails(conn.read_only) :
          IF failed
            THEN /\ DropTx(tx, ~conn.read_only)
                 /\ trace' = Append(trace, Stmt("rollback", ver, ""))
                 /\ Finish(Err("insert"), {ver})
            ELSE \E t \in readings :
                  /\ tx' = [tx EXCEPT !.version =
                               Append(@, Row(NewVersionId(ver), t, UPGRADE_NOTES))]
                  /\ trace' = trace \o <<Stmt("clock", t, ""),
                                          Stmt("insert", NewVersionId(ver), "")>>
                  /\ pc' = "commit"
                  /\ UNCHANGED <<version, schema, result, resume_from, malformed>>
    /\ UNCHANGED <<conn, at_call, page_size>>
    /\ UNCHANGED <<pragmas, journal_mode, entry, args, target_ver, old_ver, ver>>

\* Lines 94-95: tx.commit()?, then the next ver.
upgrade_commit ==
    /\ pc = "commit"
    /\ \/ /\ version' = Committed(version, tx.version)
          /\ schema' = Committed(schema, tx.schema)
          /\ tx' = NoTx
          /\ trace' = Append(trace, Stmt("commit", ver, ""))
          /\ ver' = NextVer(ver)
          /\ pc' = "loop"
          /\ UNCHANGED <<result, resume_from, malformed>>
       \/ /\ DropTx(tx, TRUE)
          /\ trace' = Append(trace, Stmt("rollback", ver, ""))
          /\ Finish(Err("commit"), {ver})
          /\ UNCHANGED ver
    /\ UNCHANGED <<conn, at_call, page_size>>
    /\ UNCHANGED <<pragmas, journal_mode, entry, args, target_ver, old_ver>>

\* Lines 95-98: the range is exhausted, upgrade returns Ok(()); line 112
\* continues in run when run was the entry point.
upgrade_return ==
    /\ pc = "loop"
    /\ ~LoopContinues(ver, target_ver)
    /\ IF entry = "run"
          THEN /\ pc' = "wal"
               /\ UNCHANGED <<result, resume_from>>
          ELSE Finish(Ok, {})
    /\ UNCHANGED <<conn, at_call, page_size, malformed>>
    /\ UNCHANGED <<version, schema, tx, pragmas, journal_mode, entry, args,
                   target_ver, old_ver, ver, trace>>

\* Line 116: set_journal_mode(&conn, "wal").unwrap().
run_wal ==
    /\ pc = "wal"
    /\ \E r \in {"Ok", "Err", "panic"} :
          /\ set_journal_mode("wal", r)
          /\ IF r = "Ok"
                THEN /\ pc' = "if_vacuum"
                     /\ UNCHANGED <<result, resume_from>>
                ELSE Finish(Panic(IF r = "panic" THEN "assert" ELSE "wal"), {})
    /\ UNCHANGED <<conn, at_call, page_size, malformed>>
    /\ UNCHANGED <<version, schema, tx, pragmas, entry, args,
                   target_ver, old_ver, ver>>

\* Variant: flag_no_vacuum is not consulted.
run_if_vacuum_always ==
    /\ pc = "if_vacuum"
    /\ \E no_vacuum \in ArgValues(entry, "flag_no_vacuum") :
          /\ args' = Read(args, "flag_no_vacuum", no_vacuum)
          /\ pc' = "vacuum"
    /\ UNCHANGED <<conn, at_call, page_size, malformed>>
    /\ UNCHANGED <<version, schema, tx, pragmas, journal_mode, entry,
                   target_ver, old_ver, ver, result, trace, resume_from>>

\* Line 117: if !args.flag_no_vacuum.
run_if_vacuum ==
    /\ pc = "if_vacuum"
    /\ \E no_vacuum \in ArgValues(entry, "flag_no_vacuum") :
          /\ args' = Read(args, "flag_no_vacuum", no_vacuum)
          /\ pc' = IF args'.flag_no_vacuum THEN "done" ELSE "vacuum"
    /\ UNCHANGED <<conn, at_call, page_size, malformed>>
    /\ UNCHANGED <<version, schema, tx, pragmas, journal_mode, entry,
                   target_ver, old_ver, ver, result, trace, resume_from>>

\* Lines 118-122: `pragma page_size = 16384; vacuum;` and unwrap() of its
\* result; a rebuild is an error on a read-only connection.
run_vacuum ==
    /\ pc = "vacuum"
    /\ \E failed \in Fails(conn.read_only) :
          IF failed
            THEN /\ trace' = Append(trace, Stmt("vacuum failed", 0, ""))
                 /\ Finish(Panic("vacuum"), {})
                 /\ UNCHANGED page_size
            ELSE /\ trace' = Append(trace, Stmt("vacuum", 0, ""))
                 /\ page_size' = VacuumPageSize(conn, page_size, journal_mode,
                                                VACUUM_PAGE_SIZE)
                 /\ pc' = "done"
                 /\ UNCHANGED <<result, resume_from>>
    /\ UNCHANGED <<conn, at_call, malformed>>
    /\ UNCHANGED <<version, schema, tx, pragmas, journal_mode, entry, args,
                   target_ver, old_ver, ver>>

\* Lines 124-126: Ok(()).
run_done ==
    /\ pc = "done"
    /\ Finish(Ok, {})
    /\ UNCHANGED <<conn, at_call, page_size, malformed>>
    /\ UNCHANGED <<version, schema, tx, pragmas, journal_mode, entry, args,
                   target_ver, old_ver, ver, trace>>

----------------------------------------------------------------------------
\* The statements of one call, once it has been entered.
Body ==
    \/ run_pragmas
    \/ upgrade_query_version
    \/ upgrade_validate
    \/ upgrade_preset_journal
    \/ upgrade_begin
    \/ upgrade_step
    \/ upgrade_insert(0..MaxTime)
    \/ upgrade_commit
    \/ upgrade_return
    \/ run_wal
    \/ run_if_vacuum
    \/ run_vacuum
    \/ run_done

Next ==
    \/ run_call
    \/ upgrade_call
    \/ Returns
    \/ Body

Spec == Init /\ [][Next]_vars

\* The statements of one call with the clock readings of FairMaxTime.
FairBody ==
    \/ run_pragmas
    \/ upgrade_query_version
    \/ upgrade_validate
    \/ upgrade_preset_journal
    \/ upgrade_begin
    \/ upgrade_step
    \/ upgrade_insert(0..FairMaxTime)
    \/ upgrade_commit
    \/ upgrade_return
    \/ run_wal
    \/ run_if_vacuum
    \/ run_vacuum
    \/ run_done

FairNext ==
    \/ run_call
    \/ upgrade_call
    \/ Returns
    \/ FairBody

\* The code is synchronous and single-threaded: an entered call keeps executing.
FairSpec == Init /\ [][FairNext]_vars /\ WF_vars(FairBody)

TypeOK ==
    /\ pc \in {"idle", "returned", "run_pragmas", "query_version", "validate", "preset_journal",
                "loop", "step", "insert", "commit", "wal", "if_vacuum", "vacuum", "done"}
    /\ conn \in UsableConns
    /\ journal_mode \in ModesOf(conn)
    /\ tx.open \in BOOLEAN
    /\ schema.partial \in BOOLEAN
    /\ page_size \in {DEFAULT_PAGE_SIZE, VACUUM_PAGE_SIZE}
    /\ malformed \in BOOLEAN

----------------------------------------------------------------------------
(* Reading the trace of a call *)

TxOps == {"begin", "step", "insert", "commit", "rollback"}

Positions(ops) == {i \in 1..Len(trace) : trace[i].op \in ops}
Count(ops) == Cardinality(Positions(ops))

\* The versions whose handler the call has invoked, in order.
Steps == SelectSeq(trace, LAMBDA e : e.op = "step")
\* The transaction statements of the call, in order.
TxTrace == SelectSeq(trace, LAMBDA e : e.op \in TxOps)

\* A call is in progress.
InCall == pc \notin {"idle", "returned"}

Returned == pc = "returned" /\ result.status \in {"Ok", "Err", "panic"}
ValidationFailed == Returned /\ result.kind \in {"VersionOutOfRange", "CorruptVersion"}

\* The errors of lines 106-110.
PragmaErrors == {"pragma foreign_keys", "pragma fullfsync", "pragma synchronous"}
PragmaFailed == Returned /\ result.kind \in PragmaErrors

\* The log is not empty and its largest id is n.
AtVersion(log, n) == Len(log) > 0 /\ MaxId(log) = n

\* The log holds exactly the ids 0..n, once each.
Contiguous(log) == Len(log) > 0 /\ Ids(log) = 0..(Len(log) - 1)

\* Logs no upgrade has ever been applied to and that fail the query or validation.
Unusable(log) == log = <<>> \/ log = <<Row(-1, 0, "")>>

\* A database is consistent when its log is 0..n and its committed schema is
\* the complete schema of version n = max(id).
Consistent(log, s) == Contiguous(log) /\ MaxId(log) = s.ver /\ ~s.partial

\* The call failed inside the transaction of a step: the handler, the insert
\* or the commit returned an error.
StepTxFailed == Returned /\ result.kind \in {"step", "insert", "commit"}

\* The call ended in the handler of a step: it returned an error or panicked.
HandlerStopped == Returned /\ result.kind \in {"step", "handler"}

\* The field of Args line 85 has read.
Preset == args.flag_preset_journal

\* The call went through its loop without a failing step.
NoStepFailed == Returned /\ (result = Ok \/ result.kind \in {"wal", "vacuum"})

\* old_ver has been read and has passed validation.
Validated ==
    \/ pc \in {"preset_journal", "loop", "step", "insert", "commit", "wal",
               "if_vacuum", "vacuum", "done"}
    \/ Returned /\ result.kind \notin
            PragmaErrors \cup {"query", "VersionOutOfRange", "CorruptVersion"}

\* The log is the one the call found plus one row per commit of the call.
LogIsCommitted ==
    /\ Len(version) = Len(at_call.version) + Count({"commit"})
    /\ SubSeq(version, 1, Len(at_call.version)) = at_call.version

----------------------------------------------------------------------------
(* C1 *)

\* What C1 says of the database after a call that ended in the handler of
\* step v.
StepFailureRolledBack ==
    /\ ~tx.open
    /\ ~malformed
    /\ NewVersionId(ver) \notin Ids(version)
    /\ AtVersion(version, ver)
    /\ LogIsCommitted
    /\ Consistent(at_call.version, at_call.schema) => schema = Schema(ver, FALSE)
    /\ \A i \in 1..Len(Steps) : Steps[i].v <= ver
    /\ Steps[Len(Steps)].v = ver
    /\ trace[Len(trace)].op = "rollback"

\* C1 as stated: when the handler of step v fails, the transaction is rolled
\* back in full, whatever the journal mode.
C1_Original ==
    (Returned /\ result.kind = "step") =>
        /\ result.status = "Err"
        /\ StepFailureRolledBack

\* C1 (amended): when the handler of step v fails with a journal mode other
\* than "off" in effect, the call returns the error with the transaction
\* rolled back in full: the committed schema is the one of version v without
\* partial changes, no row v+1 exists, max(id) = v, no transaction stays open
\* and no step for a version above v was invoked.  (With journal mode "off"
\* the error is returned and no later step is invoked, but the handler's
\* changes may stay, and a database file may be left malformed; where the
\* log can still be read, max(id) = v.  A handler that panics unwinds
\* through the same rollback; the caller gets the panic instead of an error.)
C1_StepFailureRollsBack ==
    HandlerStopped =>
        /\ journal_mode # "off" => StepFailureRolledBack
        /\ result.status = (IF result.kind = "step" THEN "Err" ELSE "panic")
        /\ ~tx.open
        /\ ~malformed => AtVersion(version, ver)
        /\ \A i \in 1..Len(Steps) : Steps[i].v <= ver

\* A call fails in the handler of a step after having committed an earlier
\* one, in a journal mode that keeps a rollback journal.
C1_Witness ==
    /\ Returned /\ result.kind = "step"
    /\ journal_mode = "delete"
    /\ Len(Steps) >= 2
    /\ ver > old_ver

----------------------------------------------------------------------------
(* C2 *)

\* One committed transition: one row, stamped with the new structural
\* version, together with the step's schema changes.
CommitsOneStep ==
    /\ pc = "commit" /\ tx.open /\ ~tx'.open
    /\ Len(version') = Len(version) + 1
    /\ SubSeq(version', 1, Len(version)) = version
    /\ version'[Len(version')].id = schema.ver + 1
    /\ schema' = Schema(schema.ver + 1, FALSE)
    /\ trace'[Len(trace')].op = "commit"

\* C2 as stated: in every reachable state the log is contiguous from 0 and
\* max(id) is the committed structural version, and the committed log and
\* schema change only together, by one row and one version per commit.
C2_Original ==
    /\ [](Unusable(version) \/ Consistent(version, schema))
    /\ [][(version' # version \/ schema' # schema) => CommitsOneStep]_vars

\* C2 (amended): in every reachable state a log that started contiguous from
\* 0 is contiguous from 0, as long as it can be read: a database is left
\* malformed only by a transaction dropped in journal mode "off".  Every
\* step taken with a journal mode other than "off" on a database whose
\* max(id) is its committed structural version leaves it so (also in the
\* working copy about to be committed) and changes the committed log and
\* schema only together, by one row and one version per commit.
C2_LogInvariant ==
    /\ [](malformed \/ Unusable(version) \/ Contiguous(version))
    /\ [](malformed => journal_mode = "off")
    /\ [][(malformed' /\ ~malformed) =>
            (pc \in {"step", "insert", "commit"} /\ tx.open /\ ~tx'.open
             /\ trace'[Len(trace')].op = "rollback")]_vars
    /\ []((pc = "commit" /\ Consistent(version, schema)) =>
            Consistent(tx.version, tx.schema))
    /\ [][(journal_mode # "off" /\ Consistent(version, schema)) =>
            /\ Consistent(version', schema')
            /\ (version' # version \/ schema' # schema) => CommitsOneStep]_vars
    /\ [][Unusable(version) => (version' = version /\ schema' = schema)]_vars

\* After calls of which one failed in a step, the log has grown by at least
\* two rows in a single call in journal mode "delete".
C2_Witness ==
    /\ Returned
    /\ journal_mode = "delete"
    /\ Consistent(version, schema)
    /\ Len(version) >= Len(at_call.version) + 2
    /\ at_call.version # InitialLog(Len(at_call.version) - 1)

----------------------------------------------------------------------------
(* C3 *)

\* The handlers invoked are registry[old_ver], registry[old_ver + 1], ... and
\* each is inside its own transaction: begin, step, insert, commit, the next
\* begin only after the commit; a rollback ends the call.
StepsInOrder ==
    LET T == TxTrace IN
    /\ \A i \in 1..Len(Steps) :
          /\ Steps[i].v = old_ver + i - 1
          /\ Steps[i].v \in 0..(EXPECTED_VERSION - 1)
          /\ Steps[i].v < target_ver
    /\ \A i \in 1..Len(T) :
          /\ T[i].op = "begin" =>
                IF i = 1 THEN T[i].v = old_ver
                ELSE T[i-1].op = "commit" /\ T[i].v = T[i-1].v + 1
          /\ T[i].op = "step" =>
                i > 1 /\ T[i-1].op = "begin" /\ T[i].v = T[i-1].v
          /\ T[i].op = "insert" =>
                i > 1 /\ T[i-1].op = "step" /\ T[i].v = T[i-1].v + 1
          /\ T[i].op = "commit" =>
                i > 1 /\ T[i-1].op = "insert" /\ T[i].v = T[i-1].v - 1
          /\ T[i].op = "rollback" =>
                i > 1 /\ i = Len(T) /\ T[i-1].op \in {"step", "insert"}
    /\ tx.open <=> (Len(T) > 0 /\ T[Len(T)].op \in {"begin", "step", "insert"})

\* C3 as stated: steps in order, one transaction each, and without a failing
\* step exactly target_ver - old_ver commits and max(id) = target_ver.
C3_Original ==
    /\ StepsInOrder
    /\ NoStepFailed =>
          /\ Count({"commit"}) = target_ver - old_ver
          /\ MaxId(version) = target_ver

\* C3 (amended): steps in order, one transaction each; without a failing step
\* and with old_ver <= target_ver exactly target_ver - old_ver commits and
\* max(id) = target_ver; with old_ver > target_ver no commit and max(id)
\* stays old_ver.
C3_OrderedSteps ==
    /\ StepsInOrder
    /\ NoStepFailed =>
          IF old_ver <= target_ver
            THEN /\ Count({"commit"}) = target_ver - old_ver
                 /\ MaxId(version) = target_ver
            ELSE /\ Count({"commit"}) = 0
                 /\ MaxId(version) = old_ver

\* upgrade returned Ok after at least two steps to an intermediate target.
C3_Witness ==
    /\ Returned /\ result = Ok /\ entry = "upgrade"
    /\ Count({"commit"}) >= 2
    /\ target_ver < EXPECTED_VERSION

----------------------------------------------------------------------------
(* C4 *)

\* The call in progress follows a call that failed in a step.
Reinvoked == InCall /\ resume_from # {}

\* What C4 says of the statements of a call entered after a failure in step v.
ResumesAt(v) ==
    /\ pc \notin {"run_pragmas", "query_version"} => old_ver = v
    /\ \A i \in 1..Len(Steps) : Steps[i].v >= v
    /\ Len(Steps) > 0 => Steps[1].v = v

\* A run entered after a failure returns, and unless it fails again it
\* returns with max(id) = EXPECTED_VERSION.
ReinvokedRunCompletes ==
    (Reinvoked /\ entry = "run") ~>
        (Returned /\ (NoStepFailed => AtVersion(version, EXPECTED_VERSION)))

\* C4 as stated: a call entered after a call that failed in step v resumes
\* at v, whatever the failed call left behind.
C4_Original ==
    /\ [](Reinvoked => \A v \in resume_from : ResumesAt(v))
    /\ ReinvokedRunCompletes

\* C4 (amended): a call entered after a call that failed in step v and left
\* max(id) = v (as every failure does that is rolled back) reads old_ver = v,
\* invokes registry[v] first and no step below v; and a run entered after a
\* failure returns, with max(id) = EXPECTED_VERSION unless a statement of it
\* fails again.  (A commit that failed in journal mode "off" may have left
\* row v+1 behind: the next call then starts at v+1.)
C4_ResumesAtFailedStep ==
    /\ [](Reinvoked =>
            \A v \in resume_from : AtVersion(at_call.version, v) => ResumesAt(v))
    /\ [](Reinvoked =>
            \A v \in resume_from : (Validated /\ InCall) => old_ver \in {v, v + 1})
    /\ ReinvokedRunCompletes

\* A run entered after a failure in step v > 0 has executed steps and is
\* about to return Ok.
C4_Witness ==
    /\ Reinvoked /\ entry = "run" /\ pc = "done"
    /\ Len(Steps) >= 2
    /\ \A v \in resume_from : v > 0 /\ Steps[1].v = v

----------------------------------------------------------------------------
(* C5 *)

DurabilityPragmaOps == {"pragma foreign_keys", "pragma fullfsync", "pragma synchronous"}
JournalOps == {"pragma journal_mode", "pragma journal_mode failed"}
VacuumOps == {"vacuum", "vacuum failed"}

\* C5 as stated: when validation fails, no pragma statement has been executed
\* on the connection.
C5_Original ==
    ValidationFailed => Count(DurabilityPragmaOps \cup JournalOps) = 0

\* C5 (amended): when validation fails, no journal_mode pragma and no
\* transaction has touched the connection; a call entered through run has
\* executed exactly the pragmas foreign_keys, fullfsync and synchronous
\* (their forced values are in effect), a direct call of upgrade nothing.
C5_ValidationBeforeJournalAndTx ==
    ValidationFailed =>
        /\ Count(JournalOps \cup TxOps) = 0
        /\ entry = "run" =>
              /\ trace = <<Stmt("pragma foreign_keys", 0, ""),
                           Stmt("pragma fullfsync", 0, ""),
                           Stmt("pragma synchronous", 0, "")>>
              /\ pragmas = ForcedPragmas
        /\ entry = "upgrade" => trace = <<>>

\* run returned the negative-version error.
C5_Witness ==
    /\ ValidationFailed /\ entry = "run"
    /\ result = Err("CorruptVersion")
    /\ old_ver < 0

----------------------------------------------------------------------------
(* C6 *)

\* C6: when validation fails, no transaction was opened, no handler invoked,
\* no row appended, no journal mode requested, no compaction run; the log
\* and the schema are as the call found them, and the journal mode changes
\* only in the two requests that follow the validation (lines 85 and 116).
C6_ValidationFailureMutatesNothing ==
    /\ [](ValidationFailed =>
            /\ Count(TxOps \cup JournalOps \cup VacuumOps) = 0
            /\ ~tx.open
            /\ version = at_call.version
            /\ schema = at_call.schema)
    /\ [][journal_mode' # journal_mode => pc \in {"preset_journal", "wal"}]_vars

\* run returned the later-than-expected error on a connection whose journal
\* mode (WAL) no preset of the steps would have left in place, before
\* reading the preset.
C6_Witness ==
    /\ ValidationFailed /\ entry = "run"
    /\ result = Err("VersionOutOfRange")
    /\ old_ver > EXPECTED_VERSION
    /\ conn = Conn("file", TRUE, FALSE, FALSE)
    /\ journal_mode = "wal" /\ ~HasRead(args, "flag_preset_journal")

----------------------------------------------------------------------------
(* C7 *)

\* C7: a call with old_ver = target_ver opens no transaction, invokes no
\* handler and appends no row; and a call that repeats the target of the
\* call before it, which returned Ok, leaves the log unchanged (and returns
\* Ok unless a statement outside the steps fails).
C7_NoOpAtTarget ==
    /\ (Validated /\ old_ver = target_ver) =>
          /\ Count(TxOps \cup {"begin failed"}) = 0
          /\ ~tx.open
          /\ version = at_call.version
          /\ schema = at_call.schema
    /\ (Returned /\ at_call.repeats) =>
          /\ Count(TxOps \cup {"begin failed"}) = 0
          /\ version = at_call.version
          /\ result = Ok \/ result.kind \in
                PragmaErrors \cup {"query", "assert", "preset_journal", "wal", "vacuum"}

\* upgrade returned Ok a second time for the same target above 0, reached by
\* the call before it.
C7_Witness ==
    /\ Returned /\ result = Ok /\ entry = "upgrade"
    /\ at_call.repeats
    /\ old_ver = target_ver /\ target_ver > 0
    /\ version # InitialLog(target_ver)

----------------------------------------------------------------------------
(* C8 *)

\* C8: the vacuum batch is executed at most once per call, only by run, only
\* with flag_no_vacuum false, as the last statement, after every
\* transaction of the call was committed (none rolled back, none open), with
\* the log at EXPECTED_VERSION, and never in a call that failed in
\* validation or in a step (or in any statement ahead of it).
C8_CompactionLastAndOptional ==
    /\ Count(VacuumOps) <= 1
    /\ \A i \in Positions(VacuumOps) :
          /\ entry = "run"
          /\ ~args.flag_no_vacuum
          /\ i = Len(trace)
          /\ \A j \in Positions(TxOps) : j < i
          /\ Count({"begin"}) = Count({"commit"})
          /\ Count({"insert"}) = Count({"commit"})
          /\ Count({"rollback", "begin failed"}) = 0
          /\ ~tx.open
          /\ AtVersion(version, EXPECTED_VERSION)
          /\ result \in {Running, Ok, Panic("vacuum")}
    /\ (ValidationFailed \/ StepTxFailed) => Count(VacuumOps) = 0
    /\ (Returned /\ result.status = "Err") => Count(VacuumOps) = 0

\* run returned Ok having vacuumed after committing steps.
C8_Witness ==
    /\ Returned /\ result = Ok /\ entry = "run"
    /\ Count({"vacuum"}) = 1
    /\ Count({"commit"}) >= 2

----------------------------------------------------------------------------
(* C9 *)

\* C9: a failed compaction is returned as an error result of run and leaves
\* the committed migration in place: max(id) = EXPECTED_VERSION and the rows
\* of the committed steps are in the log.
C9_CompactionFailureReturnsErr ==
    (Returned /\ Count({"vacuum failed"}) = 1) =>
        /\ result.status = "Err"
        /\ AtVersion(version, EXPECTED_VERSION)
        /\ LogIsCommitted

----------------------------------------------------------------------------
(* C10 *)

JournalRequests == Positions(JournalOps)

\* Every transaction of the call is committed and behind position i.
MigrationCompleteBefore(i) ==
    /\ \A j \in Positions(TxOps) : j < i
    /\ Count({"begin"}) = Count({"commit"})
    /\ Count({"rollback", "begin failed"}) = 0
    /\ ~tx.open

\* C10 as stated: WAL is requested only after all steps of the call were
\* committed, never in a call that fails in validation or in a step, and the
\* mode requested ahead of the steps is the preset.
C10_Original ==
    /\ \A i \in JournalRequests :
          /\ trace[i].mode = "wal" => MigrationCompleteBefore(i)
          /\ (\E j \in Positions(TxOps) : j > i) => trace[i].mode = Preset
    /\ (ValidationFailed \/ StepTxFailed) =>
          \A i \in JournalRequests : trace[i].mode # "wal"

\* The request of line 85: the first journal_mode pragma of the call.
IsPresetRequest(i) == \A j \in JournalRequests : i <= j

\* C10 (amended): the first journal mode request of a call is the configured
\* preset and precedes every transaction; the only other request is run's
\* WAL, issued after all steps of the call were committed, with the log at
\* EXPECTED_VERSION; a call failing in validation requests no mode, a call
\* failing in a step only the preset.  Hence WAL is requested before or
\* during the steps, or in a call that fails in a step, exactly when the
\* configured preset is WAL.
C10_WalOnlyAfterMigration ==
    /\ Cardinality(JournalRequests) <= 2
    /\ \A i \in JournalRequests :
          IF IsPresetRequest(i)
            THEN /\ trace[i].mode = Preset
                 /\ \A j \in Positions(TxOps) : j > i
            ELSE /\ trace[i].mode = "wal"
                 /\ entry = "run"
                 /\ MigrationCompleteBefore(i)
                 /\ AtVersion(version, EXPECTED_VERSION)
    /\ ValidationFailed => JournalRequests = {}
    /\ StepTxFailed => Cardinality(JournalRequests) = 1
    /\ (HasRead(args, "flag_preset_journal") /\ Preset # "wal") => C10_Original

\* run returned Ok with preset "delete": "delete" was requested ahead of the
\* steps and WAL after their commits.
C10_Witness ==
    /\ Returned /\ result = Ok /\ entry = "run"
    /\ Preset = "delete"
    /\ Count({"commit"}) >= 2
    /\ Cardinality(JournalRequests) = 2

----------------------------------------------------------------------------
(* C11 *)

\* C11: when run returns Ok, max(id) = EXPECTED_VERSION and the connection
\* is in WAL mode; with compaction enabled the vacuum batch was executed and
\* the page size is the configured one.
C11_SuccessLeavesWalAndPageSize ==
    (Returned /\ entry = "run" /\ result = Ok) =>
        /\ AtVersion(version, EXPECTED_VERSION)
        /\ journal_mode = "wal"
        /\ ~args.flag_no_vacuum =>
              /\ Count({"vacuum"}) = 1
              /\ page_size = VACUUM_PAGE_SIZE

----------------------------------------------------------------------------
(* C12 *)

\* run returned an error from validation or from a step's transaction.
RunFailed == Returned /\ entry = "run" /\ (ValidationFailed \/ StepTxFailed)

\* The database is at the last committed version: the log the call found
\* plus one row per commit of the call, nothing partial.
AtLastCommitted ==
    /\ LogIsCommitted
    /\ AtVersion(version, old_ver + Count({"commit"}))
    /\ StepTxFailed => AtVersion(version, ver)
    /\ Consistent(at_call.version, at_call.schema) =>
          schema = Schema(old_ver + Count({"commit"}), FALSE)

\* C12 as stated: when run fails in validation or in a step, the database
\* is at the last committed version and foreign_keys = on, fullfsync = on,
\* synchronous = 2 are in effect.
C12_Original ==
    RunFailed =>
        /\ ~tx.open
        /\ AtLastCommitted
        /\ pragmas.foreign_keys /\ pragmas.fullfsync /\ pragmas.synchronous = 2

\* C12 (amended): when run fails in validation or in a step, foreign_keys =
\* on, fullfsync = on, synchronous = 2 are in effect, whatever they were
\* before, and, the journal mode in effect being other than "off", the
\* database is at the last committed version; when run fails in one of the
\* three pragma statements, those ahead of it are in effect and the
\* database is untouched.  No other statement of a call changes the three
\* pragmas: they are not restored.
C12_FailureLeavesCommittedVersionAndPragmas ==
    /\ [](RunFailed =>
            /\ ~tx.open
            /\ journal_mode # "off" => AtLastCommitted
            /\ pragmas.foreign_keys /\ pragmas.fullfsync /\ pragmas.synchronous = 2)
    /\ []((PragmaFailed /\ entry = "run") =>
            /\ version = at_call.version /\ schema = at_call.schema
            /\ result.kind = "pragma synchronous" => pragmas.fullfsync)
    /\ [][pc = "run_pragmas" =>
            /\ pc' = "query_version" => pragmas' = ForcedPragmas
            /\ pc' = "returned" => pragmas'.synchronous = pragmas.synchronous
            /\ result'.kind = "pragma foreign_keys" => pragmas' = pragmas]_vars
    /\ [][pc # "run_pragmas" => pragmas' = pragmas]_vars

\* run failed in a step after committing earlier ones, in journal mode
\* "delete", on a connection handed over without a transaction: the three
\* pragmas were executed and their values are in effect.
C12_Witness ==
    /\ RunFailed /\ StepTxFailed
    /\ journal_mode = "delete"
    /\ Count({"commit"}) >= 1
    /\ Count(DurabilityPragmaOps) = 3
    /\ pragmas = ForcedPragmas

----------------------------------------------------------------------------
(* C13 *)

\* The journal mode request at position i was answered with another mode.
Mismatch(i) ==
    /\ i \in Positions({"pragma journal_mode"}) /\ i < Len(trace)
    /\ trace[i + 1].mode # trace[i].mode

\* C13: every journal mode request SQLite answers is followed by the log
\* line carrying the mode the connection is in after it, granted as
\* requested or not, and the call goes on: to the loop after the preset
\* request, to the vacuum step after the WAL request, with no error.  The
\* call ends there only when the text has a ';' or the pragma itself
\* returned an error, and then the mode is unchanged.
C13_GrantedModeLoggedAndNonFatal ==
    /\ [](\A i \in Positions({"pragma journal_mode"}) :
            i < Len(trace) /\ trace[i + 1].op = "info journal_mode")
    /\ [][(pc \in {"preset_journal", "wal"} /\ pc' # pc) =>
            IF pc' = "returned"
              THEN /\ result'.status = "panic"
                   /\ journal_mode' = journal_mode
                   /\ \/ trace' = trace /\ result'.kind = "assert"
                      \/ /\ Len(trace') = Len(trace) + 1
                         /\ trace'[Len(trace')].op = "pragma journal_mode failed"
              ELSE /\ Len(trace') = Len(trace) + 2
                   /\ trace'[Len(trace') - 1].op = "pragma journal_mode"
                   /\ trace'[Len(trace')].op = "info journal_mode"
                   /\ trace'[Len(trace')].mode = journal_mode'
                   /\ result' = Running
                   /\ pc' = (IF pc = "preset_journal" THEN "loop" ELSE "if_vacuum")]_vars

\* run returned Ok although neither the preset mode nor WAL was granted (a
\* database file on a VFS without shared memory), having executed steps
\* after the mismatch.
C13_Witness ==
    /\ Returned /\ result = Ok /\ entry = "run"
    /\ conn.kind = "file" /\ ~conn.wal
    /\ \E i \in JournalRequests : Mismatch(i) /\ IsPresetRequest(i)
    /\ \E i \in JournalRequests : Mismatch(i) /\ ~IsPresetRequest(i)
    /\ journal_mode # "wal"
    /\ Count({"commit"}) >= 1

----------------------------------------------------------------------------
(* C14 *)

RunState(name, v) == [state |-> name, v |-> v]

\* The state of the run state machine a position of run stands for.  A run
\* that unwound by a panic is in none of the five states.
StateOf(p, res, old, v) ==
    IF p \in {"run_pragmas", "query_version", "validate"} THEN RunState("Validating", 0)
    ELSE IF p = "preset_journal" THEN RunState("Migrating", old)
    ELSE IF p \in {"loop", "step", "insert", "commit", "wal", "if_vacuum"}
        THEN RunState("Migrating", v)
    ELSE IF p = "vacuum" THEN RunState("Compacting", 0)
    ELSE IF p = "done" THEN RunState("Done", 0)
    ELSE IF res.status = "Ok" THEN RunState("Done", 0)
    ELSE IF res.status = "Err" THEN RunState("Failed", v)
    ELSE RunState("Panicked", 0)

\* The transitions of the specified run state machine.
Allowed(s, t) ==
    \/ s.state = "Validating" /\ t.state = "Migrating" /\ t.v = old_ver'
    \/ s.state = "Validating" /\ t.state = "Failed"
    \/ s.state = "Migrating" /\ t.state = "Migrating" /\ t.v = s.v + 1
    \/ s.state = "Migrating" /\ t.state = "Failed" /\ t.v = s.v
    \/ /\ s.state = "Migrating" /\ s.v = target_ver
       /\ HasRead(args', "flag_no_vacuum")
       /\ t.state = (IF args'.flag_no_vacuum THEN "Done" ELSE "Compacting")
    \/ s.state = "Compacting" /\ t.state = "Done"

\* A step of a run in progress.
RunStep == entry = "run" /\ InCall

\* C14: every step of run that changes the state of the run state machine
\* is one of its transitions, and every run ends in Done or Failed.
C14_RunStateMachine ==
    /\ [][RunStep =>
            LET s == StateOf(pc, result, old_ver, ver)
                t == StateOf(pc', result', old_ver', ver')
            IN  s # t => Allowed(s, t)]_vars
    /\ (entry = "run" /\ InCall) ~>
            (Returned /\ result.status \in {"Ok", "Err"})

----------------------------------------------------------------------------
(* C15 *)

\* The rows the call has added to the log it found.
NewRows == SubSeq(version, Len(at_call.version) + 1, Len(version))

\* A call on a version-0 database went through all steps up to target_ver.
FullChainDone ==
    /\ NoStepFailed
    /\ at_call.version = InitialLog(0)
    /\ target_ver >= 1

\* C15 as stated: the rows appended have the ids 1..N in order and strictly
\* increasing unix_time.
C15_Original ==
    FullChainDone =>
        /\ Len(NewRows) = target_ver
        /\ \A k \in 1..Len(NewRows) : NewRows[k].id = k
        /\ \A k, l \in 1..Len(NewRows) :
              k < l => NewRows[k].unix_time < NewRows[l].unix_time

\* The readings of the clock the inserts of the call have taken, in order.
Readings == SelectSeq(trace, LAMBDA e : e.op = "clock")

\* C15 (amended): the rows appended have the ids 1..N in order, and the
\* unix_time of each is the whole second the wall clock read at its insert:
\* equal for rows inserted within one second, not decreasing in id order
\* where the clock was not set back between the inserts, and smaller in
\* the later row where it was.
C15_ChainRows ==
    FullChainDone =>
        /\ Len(NewRows) = target_ver
        /\ \A k \in 1..Len(NewRows) : NewRows[k].id = k
        /\ Len(Readings) = Len(NewRows)
        /\ \A k \in 1..Len(NewRows) : NewRows[k].unix_time = Readings[k].v
        /\ \A k, l \in 1..Len(NewRows) :
              (k < l /\ \A m \in k..(l - 1) : Readings[m].v <= Readings[m + 1].v)
                  => NewRows[k].unix_time <= NewRows[l].unix_time

\* upgrade to version 3 of a version-0 database appended three rows: the
\* clock was set back after the first insert, and the last two fell within
\* the same second.
C15_Witness ==
    /\ FullChainDone /\ entry = "upgrade" /\ target_ver = 3
    /\ Len(NewRows) = 3
    /\ NewRows[1].unix_time > NewRows[2].unix_time
    /\ NewRows[2].unix_time = NewRows[3].unix_time

----------------------------------------------------------------------------
(* C16 *)

\* The version of the last progress line "...from version v to version v+1".
LastInfoFrom ==
    LET P == Positions({"info from"})
        last == CHOOSE i \in P : \A j \in P : j <= i
    IN  trace[last].v

\* The call stopped at its error: nothing was executed after the rollback.
StoppedAtError ==
    /\ result.status = "Err"
    /\ Count({"rollback"}) = 1
    /\ trace[Len(trace)].op = "rollback"

\* C16 as stated: a call failing in step v returns one error, and the error
\* names the transition v.
C16_Original ==
    StepTxFailed =>
        /\ StoppedAtError
        /\ ver \in ErrorNamesVersions(result.kind, old_ver)

\* C16 (amended): a call failing in step v returns one error, which is the
\* cause as the handler, the insert or the commit reported it and names no
\* version; the transition v is named by the last progress line logged
\* before it.  A validation error names the observed version.
C16_ErrorAndProgressLine ==
    /\ StepTxFailed =>
          /\ StoppedAtError
          /\ ErrorNamesVersions(result.kind, old_ver) = {}
          /\ Positions({"info from"}) # {}
          /\ LastInfoFrom = ver
          /\ Count({"info from"}) = ver - old_ver + 1
    /\ ValidationFailed =>
          /\ result.status = "Err"
          /\ old_ver \in ErrorNamesVersions(result.kind, old_ver)

\* A call failed in the commit of a step after committing an earlier one.
C16_Witness ==
    /\ StepTxFailed /\ result.kind = "commit"
    /\ ver > old_ver

----------------------------------------------------------------------------
(* C17 *)

\* The call went through its steps from a database whose schema was the
\* complete one of its version old_ver, up to target_ver.
Upgraded ==
    /\ NoStepFailed
    /\ old_ver <= target_ver
    /\ Consistent(at_call.version, at_call.schema)

----------------------------------------------------------------------------
(* C18 *)

\* C18: the registry has EXPECTED_VERSION handlers, a validated old_ver is in
\* 0..EXPECTED_VERSION, and every version whose handler is looked up (the
\* one about to be invoked and those invoked before) is inside the registry.
C18_RegistryIndexInBounds ==
    /\ Len(upgraders) = EXPECTED_VERSION
    /\ Validated => old_ver \in 0..EXPECTED_VERSION
    /\ pc \in {"step", "insert", "commit"} => InBounds(ver)
    /\ \A i \in Positions({"begin", "step"}) : InBounds(trace[i].v)

\* run is about to invoke the last handler of the registry.
C18_Witness ==
    /\ pc = "step" /\ entry = "run"
    /\ ver = Len(upgraders) - 1
    /\ old_ver = 0

----------------------------------------------------------------------------
(* C19 *)

InsertOrCommitFailed == Returned /\ result.kind \in {"insert", "commit"}

\* What C19 says of a call that failed in the insert or the commit of step v.
StepChangesRolledBack ==
    /\ result.status = "Err"
    /\ ~tx.open
    /\ ~malformed
    /\ NewVersionId(ver) \notin Ids(version)
    /\ AtVersion(version, ver)
    /\ Consistent(at_call.version, at_call.schema) => schema = Schema(ver, FALSE)
    /\ Steps[Len(Steps)].v = ver
    /\ trace[Len(trace)].op = "rollback"

\* C19 as stated: when the insert of the row or the commit of step v fails,
\* the step's changes are rolled back together with the row, and in no
\* reachable state is a step's change committed without its row or a row
\* without the change.
C19_Original ==
    /\ InsertOrCommitFailed => StepChangesRolledBack
    /\ Unusable(version) \/ (Len(version) > 0 /\ schema = Schema(MaxId(version), FALSE))

\* C19 (amended): when the insert of the row or the commit of step v fails
\* with a journal mode other than "off" in effect, the call returns the
\* error with the step's changes rolled back together with the row (schema
\* at v, no row v+1, max(id) = v, no later step); and a call that found the
\* committed schema matching max(id) and returns in a journal mode other
\* than "off" leaves them matching.  (With journal mode "off" the error is
\* returned and no later step executes, but the changes may stay without
\* the row.)
C19_InsertOrCommitFailureRollsBack ==
    /\ InsertOrCommitFailed =>
          /\ journal_mode # "off" => StepChangesRolledBack
          /\ result.status = "Err"
          /\ ~tx.open
          /\ Steps[Len(Steps)].v = ver
          /\ trace[Len(trace)].op = "rollback"
    /\ (/\ Returned /\ journal_mode # "off"
        /\ Consistent(at_call.version, at_call.schema)) =>
          Consistent(version, schema)

\* A call failed in the insert of the row of a step after committing an
\* earlier step, in journal mode "delete".
C19_Witness ==
    /\ InsertOrCommitFailed /\ result.kind = "insert"
    /\ journal_mode = "delete"
    /\ ver > old_ver

----------------------------------------------------------------------------
(* C20 *)

\* C20: in a log that can be read max(id) is never below what the call
\* found; and a call of upgrade with a target below the version of the
\* database has opened no transaction, has appended no row and returns Ok.
C20_VersionNeverDecreases ==
    /\ (~malformed /\ HasMaxId(at_call.version)) =>
            (HasMaxId(version) /\ MaxId(version) >= MaxId(at_call.version))
    /\ (Validated /\ target_ver < old_ver) =>
            /\ Count(TxOps \cup {"begin failed"}) = 0
            /\ ~tx.open
            /\ version = at_call.version
            /\ Returned => result = Ok

====
